---------------------------- MODULE Spec2Model ----------------------------
(***************************************************************************)
(* State-machine model of the room engine of server/index.js: one room     *)
(* record in the key-value store, the per-token statistics records, the    *)
(* in-process socket index, and the socket event handlers (create, join,   *)
(* startPref, pilePing, play, endTurn, rematch, disconnect).               *)
(*                                                                         *)
(* The deck is MIN_CARD..MAX_CARD as in the source; MAX_CARD, HAND_SIZE    *)
(* and the jump distance are scaled down (source: 99, 6, 10) so that every *)
(* shuffle can be enumerated.  The descending piles start at MAX_CARD + 1  *)
(* as in the source (100 = 99 + 1).                                        *)
(*                                                                         *)
(* Spec handles one event at a time (each handler runs to its end);        *)
(* SpecLobby is the lobby with a third token and rooms of two or four;     *)
(* SpecConc runs play and endTurn await by await, several at a time.       *)
(***************************************************************************)
EXTENDS Integers, Sequences, FiniteSets, TLC

VARIABLES
    room,         \* the store's record under roomKey(room), or NoGame
    stats,        \* the store's records under statsKey(token)
    socketIndex,  \* socket.id -> token of its latest join, or NoEntry
    closed,       \* sockets whose disconnect has been handled
    last,         \* the latest event handled and what it emitted to its sender
    inflight      \* play / endTurn handlers suspended at an await, with their locals

vars == <<room, stats, socketIndex, closed, last, inflight>>

(* ------------------------------ bounds -------------------------------- *)
MAX_CARD == 6
HAND_SIZE == 2
Jump == 3
ShuffleSwaps == 1
MaxSockets == 2
MaxGames == 1
MaxInflight == 2
MaxCounted == 2
MaxClock == 2

(* ------------------------- program constants -------------------------- *)
MIN_CARD == 2
UpStart == 1
DownStart == MAX_CARD + 1
MinPlayers == 2
MaxPlayers == 4

Tokens == {"A", "B", "C"}
\* a token that names a property every object inherits from Object.prototype
InheritedKeys == {"toString"}
LobbyTokens == Tokens \cup InheritedKeys
GameTokens == {"A", "B"}
GameNames == {"n"}
GameSizes == {2}
GamePiles == {"up1", "down1", "zz"}
Sockets == 1..MaxSockets
Handlers == 1..MaxInflight
Piles == {"up1", "up2", "down1", "down2"}
Cards == MIN_CARD..MAX_CARD
NaN == -1
CardInputs == Cards \cup {NaN}
LobbySizes == {2, 4}
Prefs == {"can", "not"}

NoEntry == "NoEntry"
Null == "null"

(* --------------------------- small helpers ---------------------------- *)
Min2(a, b) == IF a < b THEN a ELSE b
Max2(a, b) == IF a > b THEN a ELSE b

Range(s) == {s[i] : i \in DOMAIN s}

\* Array.prototype.filter((x) => x !== card)
RECURSIVE Without(_, _)
Without(s, c) ==
    IF s = <<>> THEN <<>>
    ELSE IF Head(s) = c THEN Without(Tail(s), c)
    ELSE <<Head(s)>> \o Without(Tail(s), c)

\* Array.prototype.indexOf, 1-based; 0 when absent
IndexOf(s, x) ==
    IF \E i \in DOMAIN s : s[i] = x
    THEN CHOOSE i \in DOMAIN s : s[i] = x /\ \A j \in 1..(i - 1) : s[j] # x
    ELSE 0

\* obj[key] || 0
GetOr0(f, k) == IF k \in DOMAIN f THEN f[k] ELSE 0

\* obj[key] = value
Put(f, k, v) == [x \in (DOMAIN f) \cup {k} |-> IF x = k THEN v ELSE f[x]]

EmptyMap == [x \in {} |-> 0]

ZeroStats == [games |-> 0, wins |-> 0, losses |-> 0]

(* ----------------------------- game rules ----------------------------- *)
SortedDeck == [i \in 1..Cardinality(Cards) |-> MIN_CARD + i - 1]

Swap(deck, i, j) == [deck EXCEPT ![i] = deck[j], ![j] = deck[i]]

\* the Fisher-Yates loop from position i down, for every draw of j; at most
\* `swaps` of the draws still to come move a card (j # i)
RECURSIVE FisherYates(_, _, _)
FisherYates(deck, i, swaps) ==
    IF i < 2 THEN {deck}
    ELSE UNION {FisherYates(Swap(deck, i, j), i - 1, IF j = i THEN swaps ELSE swaps - 1) :
                   j \in IF swaps > 0 THEN 1..i ELSE {i}}

newShuffledDeck == FisherYates(SortedDeck, Cardinality(Cards), ShuffleSwaps)

IsUp(pileName) == pileName \in {"up1", "up2"}

\* faulty variant: the descending piles are tested like the ascending ones
canPlayAscendingOnly(card, pileName, pileValue) ==
    card > pileValue \/ card = pileValue - Jump

canPlayOnPile(card, pileName, pileValue) ==
    IF IsUp(pileName)
    THEN card > pileValue \/ card = pileValue - Jump
    ELSE card < pileValue \/ card = pileValue + Jump

anyLegalMoveForToken(game, token) ==
    /\ token \in DOMAIN game.players
    /\ \E c \in Range(game.players[token].hand) :
          \E pileName \in DOMAIN game.piles :
              canPlayOnPile(c, pileName, game.piles[pileName])

\* faulty variant: the connected flag is not looked at
anyLegalMoveAnySeated(game) ==
    \E t \in DOMAIN game.players : anyLegalMoveForToken(game, t)

anyLegalMoveForAnyone(game) ==
    \E t \in DOMAIN game.players :
        game.players[t].connected /\ anyLegalMoveForToken(game, t)

\* faulty variant: one card is enough whatever the deck holds
minPlaysAlwaysOne(game) == 1

minPlaysThisTurn(game) == IF Len(game.deck) = 0 THEN 1 ELSE 2

\* faulty variant: the next token in join order, connected or not
nextTokenInOrder(game, currentToken) ==
    IF game.tokens = <<>> THEN Null
    ELSE game.tokens[(IndexOf(game.tokens, currentToken) % Len(game.tokens)) + 1]

\* faulty variant: no token when nobody is connected
nextConnectedOrNull(game, currentToken) ==
    LET tokens == game.tokens
        n == Len(tokens)
        idx == IndexOf(tokens, currentToken) - 1
        at(k) == tokens[((idx + k) % n) + 1]
        hits == {k \in 1..n : game.players[at(k)].connected}
    IN  IF n = 0 \/ hits = {} THEN Null
        ELSE at(CHOOSE k \in hits : \A m \in hits : k <= m)

\* tokens = Object.keys(game.players): the join order
nextConnectedToken(game, currentToken) ==
    LET tokens == game.tokens
        n == Len(tokens)
        idx == IndexOf(tokens, currentToken) - 1
        at(k) == tokens[((idx + k) % n) + 1]
        hits == {k \in 1..n : game.players[at(k)].connected}
    IN  IF n = 0 THEN Null
        ELSE IF hits # {}
             THEN at(CHOOSE k \in hits : \A m \in hits : k <= m)
             ELSE at(1)

StartPiles == [p \in Piles |-> IF IsUp(p) THEN UpStart ELSE DownStart]


(* ----------------------------- the store ------------------------------ *)
\* loadRoom returns null for a key that was never saved
NoGame == [exists |-> FALSE]

NoStart == [active |-> FALSE, made |-> {}, pref |-> EmptyMap]

\* the record createRoom saves for a new room code
NewGame(maxPlayers) ==
    [exists |-> TRUE,
     maxPlayers |-> maxPlayers,
     status |-> "waiting",
     deck |-> <<>>,
     piles |-> StartPiles,
     tokens |-> <<>>,
     players |-> EmptyMap,
     turnToken |-> Null,
     playedThisTurn |-> EmptyMap,
     pilePings |-> EmptyMap,
     start |-> NoStart]

\* Math.max(2, Math.min(4, parseInt(maxPlayers || "2", 10)))
ClampPlayers(n) == Max2(MinPlayers, Min2(MaxPlayers, n))

createRoom(existing, maxPlayers) ==
    IF existing.exists
    THEN IF existing.status = "waiting"
         THEN [existing EXCEPT !.maxPlayers = maxPlayers]
         ELSE existing
    ELSE NewGame(maxPlayers)

(* ------------------------------ dealing ------------------------------- *)
\* the cards one player is dealt: HAND_SIZE pops from the end of the deck
DealtHand(deck) ==
    [i \in 1..Min2(HAND_SIZE, Len(deck)) |-> deck[Len(deck) + 1 - i]]

AfterDeal(deck) == SubSeq(deck, 1, Len(deck) - Min2(HAND_SIZE, Len(deck)))

\* the deal loop over tokens[i..]: [deck, players]
RECURSIVE DealFrom(_, _, _, _)
DealFrom(tokens, i, deck, players) ==
    IF i > Len(tokens) THEN [deck |-> deck, players |-> players]
    ELSE DealFrom(tokens, i + 1, AfterDeal(deck),
                  [players EXCEPT ![tokens[i]].hand = DealtHand(deck)])

\* faulty variant: the deal waits for one player more than maxPlayers
WillDealOffByOne(game) ==
    game.exists /\ game.status = "waiting" /\ Len(game.tokens) > game.maxPlayers

WillDeal(game) ==
    game.exists /\ game.status = "waiting" /\ Len(game.tokens) >= game.maxPlayers

\* startChoosingIfReady, with the deck newShuffledDeck() returned
startChoosingIfReady(game, shuffled) ==
    IF ~WillDeal(game) THEN game
    ELSE LET dealt == DealFrom(game.tokens, 1, shuffled, game.players)
         IN  [game EXCEPT !.deck = dealt.deck,
                          !.piles = StartPiles,
                          !.turnToken = Null,
                          !.playedThisTurn = EmptyMap,
                          !.pilePings = EmptyMap,
                          !.start = [active |-> TRUE, made |-> {}, pref |-> EmptyMap],
                          !.players = dealt.players,
                          !.status = "choosing_start"]

\* the decks a handler that ends in startChoosingIfReady can draw
DecksFor(game) == IF WillDeal(game) THEN newShuffledDeck ELSE {<<>>}

(* ----------------------------- start vote ----------------------------- *)
AllMade(game) == \A t \in Range(game.tokens) : t \in game.start.made

\* faulty variant: the starter is drawn from all seated tokens
StarterPoolAll(game) == Range(game.tokens)

\* the tokens decideStarterIfAllMade draws the starter from
StarterPool(game) ==
    LET can == {t \in Range(game.tokens) :
                   t \in DOMAIN game.start.pref /\ game.start.pref[t] = "can"}
    IN  IF can # {} THEN can ELSE Range(game.tokens)

WillDecide(game) ==
    game.exists /\ game.status = "choosing_start" /\ AllMade(game)

\* decideStarterIfAllMade, with the starter the random draw picked
decideStarterIfAllMade(game, starter) ==
    IF ~WillDecide(game) THEN game
    ELSE [game EXCEPT !.status = "playing",
                      !.turnToken = starter,
                      !.playedThisTurn = EmptyMap]

StartersFor(game) ==
    IF WillDecide(game) /\ game.tokens # <<>> THEN StarterPool(game) ELSE {Null}

(* --------------------------- win / lose check ------------------------- *)
deckEmpty(game) == Len(game.deck) = 0

handsEmpty(game) == \A t \in DOMAIN game.players : Len(game.players[t].hand) = 0

cardsRemain(game) == ~handsEmpty(game) \/ ~deckEmpty(game)

\* faulty variant: the lose test looks at the turn holder only
OutcomeHolderOnly(game) ==
    IF deckEmpty(game) /\ handsEmpty(game) THEN "win"
    ELSE IF cardsRemain(game) /\ ~anyLegalMoveForToken(game, game.turnToken) THEN "lose"
    ELSE "none"

\* faulty variant: the win test forgets the hands
OutcomeDeckOnly(game) ==
    IF deckEmpty(game) THEN "win"
    ELSE IF cardsRemain(game) /\ ~anyLegalMoveForAnyone(game) THEN "lose"
    ELSE "none"

\* what checkWinLoseAndPersist decides: "win", "lose" or "none"
Outcome(game) ==
    IF deckEmpty(game) /\ handsEmpty(game) THEN "win"
    ELSE IF cardsRemain(game) /\ ~anyLegalMoveForAnyone(game) THEN "lose"
    ELSE "none"

\* the room record checkWinLoseAndPersist returns (and saves when it decided)
checkWinLoseAndPersist(game) ==
    IF Outcome(game) = "none" THEN game
    ELSE [game EXCEPT !.status = Outcome(game)]

\* whether checkWinLoseAndPersist runs its statistics loop
CountsStats(game) == Outcome(game) # "none" /\ game.status # Outcome(game)

\* one pass of the getStats / +1 / setStats loop over the seated tokens
BumpStats(st, game) ==
    IF ~CountsStats(game) THEN st
    ELSE [t \in DOMAIN st |->
            IF t \in DOMAIN game.players
            THEN [games |-> st[t].games + 1,
                  wins |-> st[t].wins + (IF Outcome(game) = "win" THEN 1 ELSE 0),
                  losses |-> st[t].losses + (IF Outcome(game) = "lose" THEN 1 ELSE 0)]
            ELSE st[t]]

(* ------------------------- handlers, as functions --------------------- *)
\* Each handler maps the record it loaded and its arguments to the record it
\* saves last and the errorMsg it emits to the sender ("ok": none, the state
\* was broadcast; "none": it returned without emitting anything).
Res(game, reply) == [game |-> game, reply |-> reply]

\* !!game.players?.[token]: a property lookup, which also finds what the
\* players object inherits
IsKnown(game, token) == token \in DOMAIN game.players \/ token \in InheritedKeys

\* join: the player record entered or updated for the token; for an inherited
\* key the reconnect branch writes to the inherited object, and nothing of it
\* is in the record that is saved
Seat(game, token, name, sock) ==
    IF token \in DOMAIN game.players
    THEN [game EXCEPT
            !.players[token].name = IF name # "" THEN name ELSE @,
            !.players[token].connected = TRUE,
            !.players[token].socketId = sock]
    ELSE IF token \in InheritedKeys THEN game
    ELSE [game EXCEPT
            !.tokens = Append(@, token),
            !.players = Put(@, token,
                [name |-> name, hand |-> <<>>, connected |-> TRUE, socketId |-> sock])]

JoinRejected(game, token) ==
    IF ~game.exists THEN "NOT_FOUND"
    ELSE IF ~IsKnown(game, token) /\ Len(game.tokens) >= game.maxPlayers
         THEN "FULL"
    ELSE "ok"

\* the reconnect branch assigns the name to the inherited function object,
\* whose name is read-only: the assignment throws and the handler's catch
\* answers with the server error before anything is indexed or saved
SeatThrows(game, token, name) ==
    token \notin DOMAIN game.players /\ token \in InheritedKeys /\ name # ""

joinHandler(game, token, name, sock, shuffled) ==
    IF JoinRejected(game, token) # "ok" THEN Res(game, JoinRejected(game, token))
    ELSE IF SeatThrows(game, token, name) THEN Res(game, "SERVER_ERROR")
    ELSE Res(startChoosingIfReady(Seat(game, token, name, sock), shuffled), "ok")

CastVote(game, token, pref) ==
    [game EXCEPT !.start = [active |-> TRUE,
                            made |-> game.start.made \cup {token},
                            pref |-> Put(game.start.pref, token,
                                         IF pref = "can" THEN "can" ELSE "not")]]

startPrefHandler(game, token, pref, starter) ==
    IF ~game.exists THEN Res(game, "NOT_FOUND")
    ELSE IF game.status # "choosing_start" THEN Res(game, "none")
    ELSE Res(decideStarterIfAllMade(CastVote(game, token, pref), starter), "ok")

pilePingHandler(game, pile, type, ts) ==
    IF ~game.exists THEN Res(game, "NOT_FOUND")
    ELSE IF pile \notin Piles THEN Res(game, "none")
    ELSE IF type \notin {"have", "dont"} THEN Res(game, "none")
    ELSE Res([game EXCEPT !.pilePings = Put(@, pile, [type |-> type, ts |-> ts])], "ok")

\* faulty variant: the status check is missing
PlayRejectedNoStatus(game, token, card, pile) ==
    IF card = NaN THEN "none"
    ELSE IF ~game.exists THEN "NOT_FOUND"
    ELSE IF game.turnToken # token THEN "NOT_YOUR_TURN"
    ELSE IF token \notin DOMAIN game.players THEN "UNKNOWN_PLAYER"
    ELSE IF card \notin Range(game.players[token].hand) THEN "INVALID_CARD"
    ELSE IF pile \notin DOMAIN game.piles THEN "INVALID_PILE"
    ELSE IF ~canPlayOnPile(card, pile, game.piles[pile]) THEN "ILLEGAL_MOVE"
    ELSE "ok"

\* play: the errorMsg of the first failing check, "ok" when all pass
PlayRejected(game, token, card, pile) ==
    IF card = NaN THEN "none"
    ELSE IF ~game.exists THEN "NOT_FOUND"
    ELSE IF game.status # "playing" THEN "none"
    ELSE IF game.turnToken # token THEN "NOT_YOUR_TURN"
    ELSE IF token \notin DOMAIN game.players THEN "UNKNOWN_PLAYER"
    ELSE IF card \notin Range(game.players[token].hand) THEN "INVALID_CARD"
    ELSE IF pile \notin DOMAIN game.piles THEN "INVALID_PILE"
    ELSE IF ~canPlayOnPile(card, pile, game.piles[pile]) THEN "ILLEGAL_MOVE"
    ELSE "ok"

\* faulty variant: the played card stays in the hand
ApplyMoveKeepsCard(game, token, card, pile) ==
    [game EXCEPT !.piles[pile] = card,
                 !.playedThisTurn = Put(@, token, GetOr0(@, token) + 1)]

\* faulty variant: the play also passes the turn on
ApplyMovePassesTurn(game, token, card, pile) ==
    [game EXCEPT !.piles[pile] = card,
                 !.players[token].hand = Without(@, card),
                 !.playedThisTurn = Put(@, token, GetOr0(@, token) + 1),
                 !.turnToken = nextConnectedToken(game, token)]

\* play: "apply move", the record of the first saveRoom
ApplyMove(game, token, card, pile) ==
    [game EXCEPT !.piles[pile] = card,
                 !.players[token].hand = Without(@, card),
                 !.playedThisTurn = Put(@, token, GetOr0(@, token) + 1)]

playHandler(game, token, card, pile) ==
    IF PlayRejected(game, token, card, pile) # "ok"
    THEN Res(game, PlayRejected(game, token, card, pile))
    ELSE Res(checkWinLoseAndPersist(ApplyMove(game, token, card, pile)), "ok")

\* faulty variant: the turn check is missing
EndTurnAnyone(game, token) ==
    IF ~game.exists THEN "NOT_FOUND"
    ELSE IF game.status # "playing" THEN "none"
    ELSE IF token \notin DOMAIN game.players THEN "UNKNOWN_PLAYER"
    ELSE IF GetOr0(game.playedThisTurn, token) < minPlaysThisTurn(game)
            /\ anyLegalMoveForToken(game, token)
         THEN "MUST_PLAY_MORE"
    ELSE "ok"

\* endTurn: the errorMsg of the first failing check, "ok" when all pass
EndTurnRejected(game, token) ==
    IF ~game.exists THEN "NOT_FOUND"
    ELSE IF game.status # "playing" THEN "none"
    ELSE IF game.turnToken # token THEN "NOT_YOUR_TURN"
    ELSE IF token \notin DOMAIN game.players THEN "UNKNOWN_PLAYER"
    ELSE IF GetOr0(game.playedThisTurn, token) < minPlaysThisTurn(game)
            /\ anyLegalMoveForToken(game, token)
         THEN "MUST_PLAY_MORE"
    ELSE "ok"

\* faulty variant: the loop stops one card short of HAND_SIZE
DrawCountOneShort(hand, deck) ==
    Min2(Max2(HAND_SIZE - 1 - Len(hand), 0), Len(deck))

\* the number of cards the draw loop moves from the deck to the hand
DrawCount(hand, deck) == Min2(Max2(HAND_SIZE - Len(hand), 0), Len(deck))

\* the hand after the draw loop: pops from the end of the deck, pushed in order
DrawnHand(hand, deck) ==
    hand \o [i \in 1..DrawCount(hand, deck) |-> deck[Len(deck) + 1 - i]]

\* faulty variant: the cards drawn stay in the deck
ApplyEndTurnKeepsDeck(game, token) ==
    LET p == game.players[token]
        drawn == [game EXCEPT
                    !.players[token].hand = DrawnHand(p.hand, game.deck),
                    !.playedThisTurn = Put(@, token, 0)]
    IN  [drawn EXCEPT !.turnToken = nextConnectedToken(drawn, token)]

\* endTurn: draw, reset the counter, advance; the record of the first saveRoom
ApplyEndTurn(game, token) ==
    LET p == game.players[token]
        drawn == [game EXCEPT
                    !.players[token].hand = DrawnHand(p.hand, game.deck),
                    !.deck = SubSeq(@, 1, Len(@) - DrawCount(p.hand, game.deck)),
                    !.playedThisTurn = Put(@, token, 0)]
    IN  [drawn EXCEPT !.turnToken = nextConnectedToken(drawn, token)]

endTurnHandler(game, token) ==
    IF EndTurnRejected(game, token) # "ok"
    THEN Res(game, EndTurnRejected(game, token))
    ELSE Res(checkWinLoseAndPersist(ApplyEndTurn(game, token)), "ok")

\* faulty variant: the status is not set back to waiting
ResetKeepsStatus(game) ==
    [game EXCEPT !.deck = <<>>,
                 !.piles = StartPiles,
                 !.turnToken = Null,
                 !.playedThisTurn = EmptyMap,
                 !.pilePings = EmptyMap,
                 !.start = NoStart,
                 !.players = [t \in DOMAIN @ |-> [@[t] EXCEPT !.hand = <<>>]]]

\* rematch: the reset before startChoosingIfReady
ResetForRematch(game) ==
    [game EXCEPT !.status = "waiting",
                 !.deck = <<>>,
                 !.piles = StartPiles,
                 !.turnToken = Null,
                 !.playedThisTurn = EmptyMap,
                 !.pilePings = EmptyMap,
                 !.start = NoStart,
                 !.players = [t \in DOMAIN @ |-> [@[t] EXCEPT !.hand = <<>>]]]

rematchHandler(game, shuffled) ==
    IF ~game.exists THEN Res(game, "NOT_FOUND")
    ELSE Res(startChoosingIfReady(ResetForRematch(game), shuffled), "ok")

\* disconnect: the record saved for the socket's index entry
MarkDisconnected(game, token) ==
    IF game.exists /\ token \in DOMAIN game.players
    THEN [game EXCEPT !.players[token].connected = FALSE,
                      !.players[token].socketId = 0]
    ELSE game

disconnectHandler(game, entry) ==
    IF entry = NoEntry THEN Res(game, "none")
    ELSE IF ~game.exists THEN Res(game, "none")
    ELSE IF ~IsKnown(game, entry) THEN Res(game, "none")
    ELSE Res(MarkDisconnected(game, entry), "ok")

(* ------------------------------ the events --------------------------- *)
\* `last` is the event handled latest and the errorMsg it emitted; the sender
\* takes note of it (Ack) before the next event is handled.
Ev(op, reply) == [op |-> op, reply |-> reply]

Idle == Ev("idle", "none")

\* a handler slot with no handler in it
Free ==
    [pc |-> "free", op |-> "none", token |-> Null, card |-> 0, pile |-> Null,
     game |-> NoGame, i |-> 0, s |-> ZeroStats]

Init ==
    /\ room = NoGame
    /\ stats = [t \in Tokens |-> ZeroStats]
    /\ socketIndex = [s \in Sockets |-> NoEntry]
    /\ closed = {}
    /\ last = Idle
    /\ inflight = [h \in Handlers |-> Free]

\* socket ids are fresh per connection: they are taken in order
Used(s) == s \in closed \/ socketIndex[s] # NoEntry
Live(s) == s \notin closed /\ (IF s = 1 THEN TRUE ELSE IF Used(s) THEN TRUE ELSE Used(s - 1))

Ack ==
    /\ last # Idle
    /\ last' = Idle
    /\ UNCHANGED <<room, stats, socketIndex, closed, inflight>>

Create(n) ==
    /\ last = Idle
    /\ room' = createRoom(room, ClampPlayers(n))
    /\ last' = Ev("create", "ok")
    /\ UNCHANGED <<stats, socketIndex, closed, inflight>>

Join(s, token, name) ==
    /\ last = Idle
    /\ Live(s)
    /\ \E shuffled \in DecksFor(IF JoinRejected(room, token) = "ok"
                                THEN Seat(room, token, name, s) ELSE room) :
          LET r == joinHandler(room, token, name, s, shuffled)
          IN  /\ room' = r.game
              /\ last' = Ev("join", r.reply)
              /\ socketIndex' = IF r.reply = "ok"
                                THEN [socketIndex EXCEPT ![s] = token]
                                ELSE socketIndex
    /\ UNCHANGED <<stats, closed, inflight>>

StartPref(token, pref) ==
    /\ last = Idle
    /\ \E starter \in StartersFor(IF room.exists /\ room.status = "choosing_start"
                                  THEN CastVote(room, token, pref) ELSE room) :
          LET r == startPrefHandler(room, token, pref, starter)
          IN  /\ room' = r.game
              /\ last' = Ev("startPref", r.reply)
    /\ UNCHANGED <<stats, socketIndex, closed, inflight>>

Play(token, card, pile) ==
    /\ last = Idle
    /\ LET r == playHandler(room, token, card, pile)
       IN  /\ room' = r.game
           /\ last' = Ev("play", r.reply)
           /\ stats' = IF r.reply = "ok"
                       THEN BumpStats(stats, ApplyMove(room, token, card, pile))
                       ELSE stats
    /\ UNCHANGED <<socketIndex, closed, inflight>>

EndTurn(token) ==
    /\ last = Idle
    /\ LET r == endTurnHandler(room, token)
       IN  /\ room' = r.game
           /\ last' = Ev("endTurn", r.reply)
           /\ stats' = IF r.reply = "ok"
                       THEN BumpStats(stats, ApplyEndTurn(room, token))
                       ELSE stats
    /\ UNCHANGED <<socketIndex, closed, inflight>>

Rematch ==
    /\ last = Idle
    /\ \E shuffled \in DecksFor(IF room.exists THEN ResetForRematch(room) ELSE room) :
          LET r == rematchHandler(room, shuffled)
          IN  /\ room' = r.game
              /\ last' = Ev("rematch", r.reply)
    /\ UNCHANGED <<stats, socketIndex, closed, inflight>>

Disconnect(s) ==
    /\ last = Idle
    /\ Live(s)
    /\ LET r == disconnectHandler(room, socketIndex[s])
       IN  /\ room' = r.game
           /\ last' = Ev("disconnect", r.reply)
    /\ socketIndex' = [socketIndex EXCEPT ![s] = NoEntry]
    /\ closed' = closed \cup {s}
    /\ UNCHANGED <<stats, inflight>>

\* MaxGames games are played: after that many have been counted, play and
\* endTurn are not followed into the next game
GamesCounted == \E t \in Tokens : stats[t].games >= MaxGames
PlayedOut == GamesCounted /\ room.exists /\ room.status = "playing"

\* Game play: two tokens, rooms of two, every connection joins once, cards
\* are played on one ascending and one descending pile.
Next ==
    \/ Ack
    \/ \E n \in GameSizes : Create(n)
    \/ \E s \in Sockets, token \in GameTokens, name \in GameNames :
          socketIndex[s] = NoEntry /\ Join(s, token, name)
    \/ \E token \in GameTokens, pref \in Prefs : StartPref(token, pref)
    \/ \E token \in GameTokens, card \in CardInputs, pile \in GamePiles :
          ~PlayedOut /\ Play(token, card, pile)
    \/ \E token \in GameTokens : ~PlayedOut /\ EndTurn(token)
    \/ Rematch
    \/ \E s \in Sockets : Disconnect(s)

Spec == Init /\ [][Next]_vars


\* The lobby: three tokens and one that names an inherited property, rooms of
\* two or four, a connection may join again; no vote is cast and no card is
\* played.
\* seated players keep one name; an inherited key is sent with and without one
LobbyNames(token) == IF token \in InheritedKeys THEN {"", "n"} ELSE GameNames

NextLobby ==
    \/ Ack
    \/ \E n \in LobbySizes : Create(n)
    \/ \E s \in Sockets, token \in LobbyTokens :
          \E name \in LobbyNames(token) : Join(s, token, name)
    \/ Rematch
    \/ \E s \in Sockets : Disconnect(s)

SpecLobby == Init /\ [][NextLobby]_vars

\* At the table: A and B have joined a room of two on sockets 1 and 2, the
\* deal is any shuffle, both have voted can and the starter is either; cards
\* are played on all four piles.
TableRooms ==
    {decideStarterIfAllMade(
         CastVote(CastVote(
             startChoosingIfReady(
                 Seat(Seat(NewGame(2), "A", "n", 1), "B", "n", 2), shuffled),
             "A", "can"), "B", "can"),
         starter) : shuffled \in newShuffledDeck, starter \in {"A", "B"}}

InitTable ==
    /\ room \in TableRooms
    /\ stats = [t \in Tokens |-> ZeroStats]
    /\ socketIndex = [s \in Sockets |-> IF s = 1 THEN "A" ELSE IF s = 2 THEN "B" ELSE NoEntry]
    /\ closed = {}
    /\ last = Idle
    /\ inflight = [h \in Handlers |-> Free]

NextTable ==
    \/ Ack
    \/ \E token \in GameTokens, card \in Cards, pile \in Piles : Play(token, card, pile)
    \/ \E token \in GameTokens : EndTurn(token)
    \/ \E s \in Sockets : Disconnect(s)

SpecTable == InitTable /\ [][NextTable]_vars

\* The vote: A and B are seated and dealt, a third token and any preference
\* may be sent.
PrefInputs == Prefs \cup {"zz"}

VoteRooms ==
    {startChoosingIfReady(Seat(Seat(NewGame(2), "A", "n", 1), "B", "n", 2), shuffled) :
        shuffled \in newShuffledDeck}

InitVote ==
    /\ room \in VoteRooms
    /\ stats = [t \in Tokens |-> ZeroStats]
    /\ socketIndex = [s \in Sockets |-> IF s = 1 THEN "A" ELSE IF s = 2 THEN "B" ELSE NoEntry]
    /\ closed = {}
    /\ last = Idle
    /\ inflight = [h \in Handlers |-> Free]

NextVote ==
    \/ Ack
    \/ \E token \in Tokens, pref \in PrefInputs : StartPref(token, pref)
    \/ \E s \in Sockets : Disconnect(s)

SpecVote == InitVote /\ [][NextVote]_vars

(* ------------------- play and endTurn, await by await ----------------- *)
\* A handler runs from one await to the next without interruption; the store
\* serves the reads and writes in the order they are sent.  Each step below
\* is one such stretch of play / endTurn and checkWinLoseAndPersist, working
\* on the handler's own copy of the record it loaded.
ConcCards == {2, 3}
ConcPiles == {"up1", "down1"}

\* an end game of Spec: A holds the turn and the last card, the deck is empty
EndGame ==
    [exists |-> TRUE,
     maxPlayers |-> 2,
     status |-> "playing",
     deck |-> <<>>,
     piles |-> [StartPiles EXCEPT !["up1"] = MAX_CARD, !["down1"] = 3],
     tokens |-> <<"A", "B">>,
     players |-> [t \in {"A", "B"} |->
                    [name |-> "n",
                     hand |-> IF t = "A" THEN <<2>> ELSE <<>>,
                     connected |-> TRUE,
                     socketId |-> IF t = "A" THEN 1 ELSE 2]],
     turnToken |-> "A",
     playedThisTurn |-> [t \in {"A", "B"} |-> 0],
     pilePings |-> EmptyMap,
     start |-> [active |-> TRUE, made |-> {"A", "B"},
                pref |-> [t \in {"A", "B"} |-> "can"]]]

ConcStart ==
    /\ room = EndGame
    /\ stats = [t \in Tokens |-> ZeroStats]
    /\ socketIndex = [s \in Sockets |-> IF s = 1 THEN "A" ELSE IF s = 2 THEN "B" ELSE NoEntry]
    /\ closed = {}
    /\ last = Idle

InitConc == ConcStart /\ inflight = [h \in Handlers |-> Free]

\* events are followed until a game has been counted MaxCounted times
CountedEnough == \E t \in Tokens : stats[t].games >= MaxCounted

\* play arrives: the arguments are parsed and loadRoom is sent
BeginPlay(h, token, card, pile) ==
    /\ inflight[h].pc = "free"
    /\ ~CountedEnough
    /\ card # NaN
    /\ inflight' = [inflight EXCEPT ![h] =
                      [pc |-> "loaded", op |-> "play", token |-> token, card |-> card,
                       pile |-> pile, game |-> room, i |-> 0, s |-> ZeroStats]]
    /\ UNCHANGED <<room, stats, socketIndex, closed, last>>

\* endTurn arrives: loadRoom is sent
BeginEndTurn(h, token) ==
    /\ inflight[h].pc = "free"
    /\ ~CountedEnough
    /\ inflight' = [inflight EXCEPT ![h] =
                      [pc |-> "loaded", op |-> "endTurn", token |-> token, card |-> 0,
                       pile |-> Null, game |-> room, i |-> 0, s |-> ZeroStats]]
    /\ UNCHANGED <<room, stats, socketIndex, closed, last>>

\* faulty variant: the first saveRoom is missing
ValidateSkipsSave(h) ==
    LET l == inflight[h]
        reply == IF l.op = "play"
                 THEN PlayRejected(l.game, l.token, l.card, l.pile)
                 ELSE EndTurnRejected(l.game, l.token)
        changed == IF l.op = "play"
                   THEN ApplyMove(l.game, l.token, l.card, l.pile)
                   ELSE ApplyEndTurn(l.game, l.token)
    IN  /\ l.pc = "loaded"
        /\ IF reply # "ok"
           THEN inflight' = [inflight EXCEPT ![h] = Free]
           ELSE inflight' = [inflight EXCEPT ![h].pc = "applied", ![h].game = changed]
        /\ UNCHANGED <<room, stats, socketIndex, closed, last>>

\* the checks, then the change and the first saveRoom
Validate(h) ==
    LET l == inflight[h]
        reply == IF l.op = "play"
                 THEN PlayRejected(l.game, l.token, l.card, l.pile)
                 ELSE EndTurnRejected(l.game, l.token)
        changed == IF l.op = "play"
                   THEN ApplyMove(l.game, l.token, l.card, l.pile)
                   ELSE ApplyEndTurn(l.game, l.token)
    IN  /\ l.pc = "loaded"
        /\ IF reply # "ok"
           THEN /\ inflight' = [inflight EXCEPT ![h] = Free]
                /\ UNCHANGED room
           ELSE /\ inflight' = [inflight EXCEPT ![h].pc = "applied", ![h].game = changed]
                /\ room' = changed
        /\ UNCHANGED <<stats, socketIndex, closed, last>>

\* checkWinLoseAndPersist up to its first await: no outcome, and the handler
\* saves the record again; or the status is set and the first getStats is sent
Evaluate(h) ==
    LET l == inflight[h]
    IN  /\ l.pc = "applied"
        /\ IF Outcome(l.game) = "none"
           THEN /\ room' = l.game
                /\ inflight' = [inflight EXCEPT ![h] = Free]
           ELSE IF ~CountsStats(l.game) \/ l.game.tokens = <<>>
           THEN /\ room' = checkWinLoseAndPersist(l.game)
                /\ inflight' = [inflight EXCEPT ![h].pc = "persisted",
                                                ![h].game = checkWinLoseAndPersist(l.game)]
           ELSE /\ UNCHANGED room
                /\ inflight' = [inflight EXCEPT ![h].pc = "read",
                                                ![h].game = checkWinLoseAndPersist(l.game),
                                                ![h].i = 1,
                                                ![h].s = stats[l.game.tokens[1]]]
        /\ UNCHANGED <<stats, socketIndex, closed, last>>

\* faulty variant: only the games counter is written
WriteStatsGamesOnly(h) ==
    LET l == inflight[h]
        t == l.game.tokens[l.i]
    IN  /\ l.pc = "read"
        /\ stats' = [stats EXCEPT ![t] = [l.s EXCEPT !.games = l.s.games + 1]]
        /\ inflight' = [inflight EXCEPT ![h].pc = "written"]
        /\ UNCHANGED <<room, socketIndex, closed, last>>

\* s.games += 1; s.wins += 1 (or s.losses += 1); setStats is sent
WriteStats(h) ==
    LET l == inflight[h]
        t == l.game.tokens[l.i]
    IN  /\ l.pc = "read"
        /\ stats' = [stats EXCEPT ![t] =
                       [games |-> l.s.games + 1,
                        wins |-> l.s.wins + (IF l.game.status = "win" THEN 1 ELSE 0),
                        losses |-> l.s.losses + (IF l.game.status = "lose" THEN 1 ELSE 0)]]
        /\ inflight' = [inflight EXCEPT ![h].pc = "written"]
        /\ UNCHANGED <<room, socketIndex, closed, last>>

\* the next turn of the loop sends getStats; after the last one
\* checkWinLoseAndPersist sends its saveRoom
NextStats(h) ==
    LET l == inflight[h]
    IN  /\ l.pc = "written"
        /\ IF l.i < Len(l.game.tokens)
           THEN /\ inflight' = [inflight EXCEPT ![h].pc = "read",
                                                ![h].i = l.i + 1,
                                                ![h].s = stats[l.game.tokens[l.i + 1]]]
                /\ UNCHANGED room
           ELSE /\ inflight' = [inflight EXCEPT ![h].pc = "persisted"]
                /\ room' = l.game
        /\ UNCHANGED <<stats, socketIndex, closed, last>>

\* back in the handler: its second saveRoom
Finish(h) ==
    LET l == inflight[h]
    IN  /\ l.pc = "persisted"
        /\ room' = l.game
        /\ inflight' = [inflight EXCEPT ![h] = Free]
        /\ UNCHANGED <<stats, socketIndex, closed, last>>

\* At most MaxInflight handlers of play and endTurn at a time, on the end game.
NextConc ==
    \/ \E h \in Handlers, token \in GameTokens, card \in ConcCards, pile \in ConcPiles :
          BeginPlay(h, token, card, pile)
    \/ \E h \in Handlers, token \in GameTokens : BeginEndTurn(h, token)
    \/ \E h \in Handlers : Validate(h)
    \/ \E h \in Handlers : Evaluate(h)
    \/ \E h \in Handlers : WriteStats(h)
    \/ \E h \in Handlers : NextStats(h)
    \/ \E h \in Handlers : Finish(h)

SpecConc == InitConc /\ [][NextConc]_vars

\* The same steps one and a half turns earlier: B, seated first, has played 5
\* and 6 on up1 and has its turn to end, drawing the last card; A holds two
\* legal cards.
RaceCards == {2, 3, 4}

LateGame ==
    [EndGame EXCEPT !.deck = <<4>>,
                    !.piles = [StartPiles EXCEPT !["up1"] = MAX_CARD],
                    !.tokens = <<"B", "A">>,
                    !.players = [t \in {"A", "B"} |->
                                   [name |-> "n",
                                    hand |-> IF t = "A" THEN <<2, 3>> ELSE <<>>,
                                    connected |-> TRUE,
                                    socketId |-> IF t = "A" THEN 2 ELSE 1]],
                    !.turnToken = "B",
                    !.playedThisTurn = [t \in {"B"} |-> 2]]

RaceStart ==
    /\ room = LateGame
    /\ stats = [t \in Tokens |-> ZeroStats]
    /\ socketIndex = [s \in Sockets |-> IF s = 1 THEN "B" ELSE IF s = 2 THEN "A" ELSE NoEntry]
    /\ closed = {}
    /\ last = Idle

InitRace == RaceStart /\ inflight = [h \in Handlers |-> Free]

NextRace ==
    \/ \E h \in Handlers, token \in GameTokens, card \in RaceCards, pile \in ConcPiles :
          BeginPlay(h, token, card, pile)
    \/ \E h \in Handlers, token \in GameTokens : BeginEndTurn(h, token)
    \/ \E h \in Handlers : Validate(h)
    \/ \E h \in Handlers : Evaluate(h)
    \/ \E h \in Handlers : WriteStats(h)
    \/ \E h \in Handlers : NextStats(h)
    \/ \E h \in Handlers : Finish(h)

SpecRace == InitRace /\ [][NextRace]_vars

\* The draw: with the full deck a turn ends with several cards left to
\* draw and a hand that holds some.  At this scale the deal leaves one
\* card, so the turns here start from playing rooms in which each hand was
\* dealt one card of some shuffle and the deck keeps the rest.
DrawRooms ==
    {[r EXCEPT !.deck = SubSeq(shuffled, 1, Len(shuffled) - 2),
               !.players["A"].hand = <<shuffled[Len(shuffled)]>>,
               !.players["B"].hand = <<shuffled[Len(shuffled) - 1]>>] :
        r \in {t \in TableRooms : t.deck = <<MIN_CARD>>}, shuffled \in newShuffledDeck}

InitDraw ==
    /\ room \in DrawRooms
    /\ stats = [t \in Tokens |-> ZeroStats]
    /\ socketIndex = [s \in Sockets |-> IF s = 1 THEN "A" ELSE IF s = 2 THEN "B" ELSE NoEntry]
    /\ closed = {}
    /\ last = Idle
    /\ inflight = [h \in Handlers |-> Free]

SpecDraw == InitDraw /\ [][NextTable]_vars

\* Three at the table: A, B and C have joined a room of three and voted; C's
\* socket has closed since, A and B are on sockets 1 and 2.
TurnRooms ==
    {MarkDisconnected(
        decideStarterIfAllMade(CastVote(CastVote(CastVote(
            startChoosingIfReady(
                Seat(Seat(Seat(NewGame(3), "A", "n", 1), "B", "n", 2), "C", "n", 3),
                shuffled),
            "A", "can"), "B", "can"), "C", "can"),
        starter), "C") : shuffled \in newShuffledDeck, starter \in Tokens}

InitTurns ==
    /\ room \in TurnRooms
    /\ stats = [t \in Tokens |-> ZeroStats]
    /\ socketIndex = [s \in Sockets |-> IF s = 1 THEN "A" ELSE IF s = 2 THEN "B" ELSE NoEntry]
    /\ closed = {}
    /\ last = Idle
    /\ inflight = [h \in Handlers |-> Free]

NextTurns ==
    \/ Ack
    \/ \E token \in Tokens, card \in Cards, pile \in ConcPiles : Play(token, card, pile)
    \/ \E token \in Tokens : EndTurn(token)
    \/ \E s \in Sockets : Disconnect(s)

SpecTurns == InitTurns /\ [][NextTurns]_vars

\* Pings at the table.  Date.now() does not run backwards: a ping is stamped
\* no earlier than the pings stored, and later than the ping it replaces; the
\* clock is followed up to MaxClock.
PingTypes == {"have", "dont", "zz"}
Stamps == 1..MaxClock

PilePing(pile, type, ts) ==
    /\ last = Idle
    /\ room.exists => \A p \in DOMAIN room.pilePings :
                          /\ room.pilePings[p].ts <= ts
                          /\ p = pile => room.pilePings[p].ts < ts
    /\ LET r == pilePingHandler(room, pile, type, ts)
       IN  /\ room' = r.game
           /\ last' = Ev("pilePing", r.reply)
    /\ UNCHANGED <<stats, socketIndex, closed, inflight>>

NextPing ==
    \/ Ack
    \/ \E pile \in GamePiles, type \in PingTypes, ts \in Stamps : PilePing(pile, type, ts)
    \/ \E s \in Sockets : Disconnect(s)

\* the server keeps handling the events that arrive
SpecPing == InitTable /\ [][NextPing]_vars /\ WF_vars(NextPing)

(* --------------------------- startPref, await by await ---------------- *)
\* startPref arrives: loadRoom is sent
BeginStartPref(h, token, pref) ==
    /\ inflight[h].pc = "free"
    /\ room.exists
    /\ inflight' = [inflight EXCEPT ![h] =
                      [pc |-> "loaded", op |-> "startPref", token |-> token, card |-> 0,
                       pile |-> pref, game |-> room, i |-> 0, s |-> ZeroStats]]
    /\ UNCHANGED <<room, stats, socketIndex, closed, last>>

\* the status check and the vote; decideStarterIfAllMade saves the record
\* when it resolves the vote, otherwise the handler's saveRoom is the first
RecordVote(h) ==
    LET l == inflight[h]
        cast == CastVote(l.game, l.token, l.pile)
    IN  /\ l.pc = "loaded"
        /\ l.op = "startPref"
        /\ IF l.game.status # "choosing_start"
           THEN /\ inflight' = [inflight EXCEPT ![h] = Free]
                /\ UNCHANGED room
           ELSE \E starter \in StartersFor(cast) :
                   /\ room' = decideStarterIfAllMade(cast, starter)
                   /\ inflight' = [inflight EXCEPT
                                     ![h].pc = IF WillDecide(cast) THEN "decided" ELSE "done",
                                     ![h].game = decideStarterIfAllMade(cast, starter)]
        /\ UNCHANGED <<stats, socketIndex, closed, last>>

\* the handler's saveRoom after decideStarterIfAllMade has saved
SaveVote(h) ==
    /\ inflight[h].pc = "decided"
    /\ room' = inflight[h].game
    /\ inflight' = [inflight EXCEPT ![h].pc = "done"]
    /\ UNCHANGED <<stats, socketIndex, closed, last>>

\* the state and the hands are emitted and the handler returns; the two
\* handlers of a race return together
Return ==
    /\ \E h \in Handlers : inflight[h].pc = "done"
    /\ \A h \in Handlers : inflight[h].pc \in {"free", "done"}
    /\ inflight' = [h \in Handlers |-> Free]
    /\ UNCHANGED <<room, stats, socketIndex, closed, last>>

NextVoteConc ==
    \/ \E h \in Handlers, token \in GameTokens, pref \in Prefs :
          BeginStartPref(h, token, pref)
    \/ \E h \in Handlers : RecordVote(h)
    \/ \E h \in Handlers : SaveVote(h)
    \/ Return

SpecVoteConc == InitVote /\ [][NextVoteConc]_vars

(* ------------------------------ properties ---------------------------- *)
\* how often card c occurs in the deck, the seated hands and the pile tops
\* (the sentinels UpStart and DownStart are not cards)
Occurrences(seq, c) == Cardinality({i \in DOMAIN seq : seq[i] = c})

RECURSIVE HandOccurrences(_, _, _)
HandOccurrences(game, i, c) ==
    IF i > Len(game.tokens) THEN 0
    ELSE Occurrences(game.players[game.tokens[i]].hand, c)
         + HandOccurrences(game, i + 1, c)

CardCount(game, c) ==
    Occurrences(game.deck, c) + HandOccurrences(game, 1, c)
    + Cardinality({p \in DOMAIN game.piles : game.piles[p] = c})

InGame == room.exists /\ room.status \in {"choosing_start", "playing"}

OnlyCards(game) ==
    /\ Range(game.deck) \subseteq Cards
    /\ \A t \in DOMAIN game.players : Range(game.players[t].hand) \subseteq Cards
    /\ \A p \in DOMAIN game.piles : game.piles[p] \in Cards \cup {UpStart, DownStart}

\* the legality rule in the words of the specification
LegalMove(card, pile, top) ==
    \/ pile \in {"up1", "up2"} /\ (card > top \/ card = top - Jump)
    \/ pile \in {"down1", "down2"} /\ (card < top \/ card = top + Jump)

\* C1 as stated: while the status is choosing_start or playing, the deck,
\* the seated hands and the pile tops (sentinels left out) hold every card
\* of MIN_CARD..MAX_CARD exactly once.
C1_EveryCardOnce ==
    InGame => OnlyCards(room) /\ \A c \in Cards : CardCount(room, c) = 1

\* C1, amended: while the status is choosing_start or playing, the deck, the
\* seated hands and the pile tops hold only cards of MIN_CARD..MAX_CARD, each
\* at most once; they hold every card exactly once while the status is
\* choosing_start (a card covered by a later play on its pile is in none).
C1_NoCardTwice ==
    InGame =>
        /\ OnlyCards(room)
        /\ \A c \in Cards : CardCount(room, c) <= 1
        /\ room.status = "choosing_start" => \A c \in Cards : CardCount(room, c) = 1

\* a playing room in which a played card has been covered
C1_Witness ==
    /\ room.exists /\ room.status = "playing"
    /\ \E c \in Cards : CardCount(room, c) = 0

C5_PlayValidated ==
    [][/\ (last'.op = "play" /\ last'.reply # "ok")
          => (room' = room /\ stats' = stats)
       /\ \A t \in GameTokens, c \in CardInputs, p \in GamePiles :
             (last' = Ev("play", "ok") /\ Play(t, c, p))
             => /\ room.exists
                /\ room.status = "playing"
                /\ room.turnToken = t
                /\ t \in DOMAIN room.players
                /\ c \in Range(room.players[t].hand)
                /\ p \in Piles
                /\ LegalMove(c, p, room.piles[p])
       /\ (last'.op = "play" /\ room' # room) => last'.reply = "ok"]_vars

\* a card of the holder's hand was refused on an existing pile
C5_Witness ==
    /\ last = Ev("play", "ILLEGAL_MOVE")
    /\ room.status = "playing"

\* C6: an accepted play puts the card on top of the chosen pile, takes
\* exactly that card out of the player's hand and adds 1 to the player's
\* counter; the deck, the other hands, the other piles and turnToken stay.
C6_PlayFrame ==
    [][\A t \in GameTokens, c \in CardInputs, p \in GamePiles :
          (last' = Ev("play", "ok") /\ Play(t, c, p))
          => LET hand == room.players[t].hand
                 hand2 == room'.players[t].hand
             IN  /\ room'.piles = [room.piles EXCEPT ![p] = c]
                 /\ Len(hand2) = Len(hand) - 1
                 /\ Range(hand2) = Range(hand) \ {c}
                 /\ room'.playedThisTurn[t] = GetOr0(room.playedThisTurn, t) + 1
                 /\ \A u \in DOMAIN room.playedThisTurn :
                        u # t => room'.playedThisTurn[u] = room.playedThisTurn[u]
                 /\ room'.deck = room.deck
                 /\ room'.tokens = room.tokens
                 /\ \A u \in DOMAIN room.players :
                        u # t => room'.players[u] = room.players[u]
                 /\ room'.turnToken = room.turnToken]_vars

\* the second play of a turn was accepted and the game goes on
C6_Witness ==
    /\ last = Ev("play", "ok")
    /\ room.status = "playing"
    /\ GetOr0(room.playedThisTurn, room.turnToken) = 2

\* C7 as stated: when the turn holder's connection closes in a playing room
\* in which another seated player is connected, handling the disconnect
\* leaves turnToken with a connected player.
C7_DisconnectPassesTurn ==
    [][\A s \in Sockets :
          (last'.op = "disconnect" /\ Disconnect(s) /\ room.exists /\ room.status = "playing"
             /\ socketIndex[s] = room.turnToken
             /\ \E u \in DOMAIN room.players :
                   u # room.turnToken /\ room.players[u].connected)
          => /\ room'.turnToken # room.turnToken
             /\ room'.players[room'.turnToken].connected]_vars

\* C8 as stated: when a disconnect in a playing room leaves cards in the
\* game and no connected player with a legal move, handling the disconnect
\* sets the status to lose.
C8_DisconnectEvaluates ==
    [][\A s \in Sockets :
          (last'.op = "disconnect" /\ Disconnect(s) /\ room.exists /\ room.status = "playing"
             /\ cardsRemain(room') /\ ~anyLegalMoveForAnyone(room'))
          => room'.status = "lose"]_vars

\* the statistics of one win for every seated token
OneWinEach(st, game) ==
    [t \in DOMAIN st |->
        IF t \in DOMAIN game.players
        THEN [st[t] EXCEPT !.games = @ + 1, !.wins = @ + 1]
        ELSE st[t]]

\* C10: after an accepted play or endTurn the status is win exactly when the
\* deck and all seated hands are empty; the status turns to win only from
\* playing, counting one win, and stays until a rematch; a play or endTurn
\* or a further outcome check on a room that is win changes nothing.
C10_WinLatch ==
    [][/\ (last'.op \in {"play", "endTurn"} /\ last'.reply = "ok")
          => (room'.status = "win" <=> (deckEmpty(room') /\ handsEmpty(room')))
       /\ (room'.exists /\ room'.status = "win" /\ room.status # "win")
          => /\ room.status = "playing"
             /\ last'.op \in {"play", "endTurn"}
             /\ stats' = OneWinEach(stats, room)
       /\ (room.exists /\ room.status = "win")
          => /\ checkWinLoseAndPersist(room) = room
             /\ BumpStats(stats, room) = stats
             /\ last'.op \in {"play", "endTurn"} => (room' = room /\ stats' = stats)
             /\ room'.status # "win" => last'.op = "rematch"]_vars

\* the last card was played and the game is won
C10_Witness ==
    /\ last = Ev("play", "ok")
    /\ room.status = "win"
    /\ \A t \in DOMAIN room.players : stats[t].wins = 1

\* C2 as stated: the number of seated players never exceeds maxPlayers.
C2_SeatsWithinMax ==
    room.exists => Len(room.tokens) <= room.maxPlayers

\* C9 as stated, for the one game of SpecConc (it has no rematch): however
\* the handlers interleave, no token's statistics count more than one game
\* and one result.
C9_CountedOnce ==
    \A t \in DOMAIN stats :
        /\ stats[t].games <= 1
        /\ stats[t].wins + stats[t].losses <= 1

\* the outcome rule in the words of the specification
HoldsLegalCard(game, t) ==
    \E c \in Range(game.players[t].hand), p \in Piles : LegalMove(c, p, game.piles[p])

SomeCardRemains(game) ==
    Len(game.deck) > 0 \/ \E t \in DOMAIN game.players : Len(game.players[t].hand) > 0

NoConnectedMove(game) ==
    ~\E t \in DOMAIN game.players : game.players[t].connected /\ HoldsLegalCard(game, t)

Terminal(game) == game.exists /\ game.status \in {"win", "lose"}

C12_NobodyCanMove ==
    [][(room.exists /\ room.status # "lose" /\ room'.status = "lose")
       => ~\E t \in DOMAIN room'.players : HoldsLegalCard(room', t)]_vars

\* C12, amended: when the status becomes lose, a card remains and no
\* connected seated player holds a card that is legal on a pile (a
\* disconnected player may hold one).
C12_NoConnectedCanMove ==
    [][(room.exists /\ room.status # "lose" /\ room'.status = "lose")
       => (SomeCardRemains(room') /\ NoConnectedMove(room'))]_vars

\* the game is lost while a disconnected player holds a legal card
C12_Witness ==
    /\ room.status = "lose"
    /\ last.op \in {"play", "endTurn"} /\ last.reply = "ok"
    /\ \E t \in DOMAIN room.players :
          ~room.players[t].connected /\ HoldsLegalCard(room, t)

\* C13: once the status is win or lose, no event but rematch changes the
\* deck, a hand or a pile top; play and endTurn change nothing at all.
C13_TerminalFrozen ==
    [][(Terminal(room) /\ last'.op # "rematch")
       => /\ room'.deck = room.deck
          /\ room'.piles = room.piles
          /\ DOMAIN room'.players = DOMAIN room.players
          /\ \A t \in DOMAIN room.players :
                room'.players[t].hand = room.players[t].hand
          /\ last'.op \in {"play", "endTurn"}
                => (room' = room /\ stats' = stats /\ last'.reply = "none")]_vars

\* a play by the turn holder was ignored on a lost room
C13_Witness ==
    /\ Terminal(room)
    /\ room.status = "lose"
    /\ last = Ev("play", "none")

\* C14 as stated: a join with a seated token is never answered FULL; a join
\* with a token that is not seated, in a room whose player count has reached
\* maxPlayers, is always answered FULL and leaves the room unchanged.
C14_FullOnlyForStrangers ==
    [][\A s \in Sockets, token \in LobbyTokens : \A name \in LobbyNames(token) :
          (last'.op = "join" /\ Join(s, token, name) /\ room.exists)
          => /\ token \in DOMAIN room.players => last'.reply # "FULL"
             /\ (token \notin DOMAIN room.players
                   /\ Len(room.tokens) >= room.maxPlayers)
                => (last'.reply = "FULL" /\ room' = room)]_vars

\* C15 as stated: a join with a seated token leaves the status, the deck,
\* the pile tops, turnToken and every hand unchanged (no deal), and sets the
\* token's connected flag.
C15_RejoinOnlyReattaches ==
    [][\A s \in Sockets, token \in Tokens, name \in GameNames :
          (last'.op = "join" /\ Join(s, token, name)
             /\ room.exists /\ token \in DOMAIN room.players)
          => /\ room'.status = room.status
             /\ room'.deck = room.deck
             /\ room'.piles = room.piles
             /\ room'.turnToken = room.turnToken
             /\ \A t \in DOMAIN room.players :
                   room'.players[t].hand = room.players[t].hand
             /\ room'.players[token].connected]_vars

\* the seated tokens that have voted once the vote of `token` is in
VotedWith(game, token) == game.start.made \cup {token}

\* C16: the join that seats the player who brings a waiting room to
\* maxPlayers moves it to choosing_start with a fresh deck dealt: HAND_SIZE
\* cards in every hand, the rest of MIN_CARD..MAX_CARD in the deck, piles at
\* their start values, turnToken null, no votes and no counters; and the
\* vote that completes the votes of all seated tokens makes the status
\* playing with a seated token as turnToken.
C16_FullRoomDeals ==
    [][/\ \A s \in Sockets, token \in GameTokens, name \in GameNames :
             (last' = Ev("join", "ok") /\ Join(s, token, name)
                /\ room.status = "waiting"
                /\ token \notin DOMAIN room.players
                /\ Len(room.tokens) + 1 = room.maxPlayers)
             => /\ room'.status = "choosing_start"
                /\ Len(room'.tokens) = room.maxPlayers
                /\ \A t \in DOMAIN room'.players :
                      Len(room'.players[t].hand) = HAND_SIZE
                /\ Len(room'.deck) = Cardinality(Cards) - HAND_SIZE * Len(room'.tokens)
                /\ \A c \in Cards : CardCount(room', c) = 1
                /\ \A p \in Piles :
                      room'.piles[p] = IF p \in {"up1", "up2"} THEN UpStart ELSE DownStart
                /\ room'.turnToken = Null
                /\ room'.start.made = {}
                /\ DOMAIN room'.start.pref = {}
                /\ DOMAIN room'.playedThisTurn = {}
       /\ \A token \in GameTokens, pref \in Prefs :
             (last' = Ev("startPref", "ok") /\ StartPref(token, pref)
                /\ Range(room.tokens) \subseteq VotedWith(room, token))
             => /\ room'.status = "playing"
                /\ room'.turnToken \in Range(room'.tokens)]_vars

\* the second player has just been seated and the cards are dealt
C16_Witness ==
    /\ last = Ev("join", "ok")
    /\ room.status = "choosing_start"
    /\ Len(room.tokens) = room.maxPlayers
    /\ room.start.made = {}

\* the latest votes once `token` has sent `pref`
LatestVotes(game, token, pref) ==
    [t \in DOMAIN game.start.pref \cup {token} |->
        IF t = token THEN (IF pref = "can" THEN "can" ELSE "not")
        ELSE game.start.pref[t]]

\* C17: a startPref in choosing_start resolves the vote exactly when with it
\* every seated token has voted; the vote replaces the token's earlier one;
\* turnToken is a seated token whose latest vote is can if there is one, and
\* a seated token otherwise; cards do not move; outside choosing_start a
\* startPref changes nothing.
C17_VoteResolves ==
    [][\A token \in Tokens, pref \in PrefInputs :
          (last'.op = "startPref" /\ StartPref(token, pref) /\ room.exists)
          => IF room.status # "choosing_start"
             THEN room' = room /\ stats' = stats
             ELSE LET seated == Range(room.tokens)
                      latest == LatestVotes(room, token, pref)
                      allVoted == seated \subseteq VotedWith(room, token)
                      cans == {t \in seated : latest[t] = "can"}
                  IN  /\ room'.status = IF allVoted THEN "playing" ELSE "choosing_start"
                      /\ room'.start.made = VotedWith(room, token)
                      /\ room'.start.pref = latest
                      /\ IF allVoted
                         THEN room'.turnToken \in (IF cans # {} THEN cans ELSE seated)
                         ELSE room'.turnToken = Null
                      /\ room'.deck = room.deck
                      /\ room'.players = room.players
                      /\ room'.piles = room.piles]_vars

\* the vote is resolved for the one who can, after the other changed its vote
C17_Witness ==
    /\ last = Ev("startPref", "ok")
    /\ room.status = "playing"
    /\ \E t \in DOMAIN room.players : room.start.pref[t] = "not"
    /\ room.start.pref[room.turnToken] = "can"

\* C18: rematch keeps maxPlayers, the seated tokens with their names and
\* connections, and the stats; it resets pile tops, turnToken, counters and
\* votes; at capacity the status becomes choosing_start with a fresh deal,
\* otherwise waiting with an empty deck and empty hands.
C18_RematchResets ==
    [][(last' = Ev("rematch", "ok"))
       => /\ room'.maxPlayers = room.maxPlayers
          /\ room'.tokens = room.tokens
          /\ \A t \in DOMAIN room.players :
                /\ room'.players[t].name = room.players[t].name
                /\ room'.players[t].connected = room.players[t].connected
                /\ room'.players[t].socketId = room.players[t].socketId
          /\ stats' = stats
          /\ room'.piles = StartPiles
          /\ room'.turnToken = Null
          /\ DOMAIN room'.playedThisTurn = {}
          /\ room'.start.made = {}
          /\ DOMAIN room'.start.pref = {}
          /\ IF Len(room.tokens) >= room.maxPlayers
             THEN /\ room'.status = "choosing_start"
                  /\ \A c \in Cards : CardCount(room', c) = 1
                  /\ \A t \in DOMAIN room'.players :
                        Len(room'.players[t].hand) = HAND_SIZE
             ELSE /\ room'.status = "waiting"
                  /\ room'.deck = <<>>
                  /\ \A t \in DOMAIN room'.players :
                        room'.players[t].hand = <<>>]_vars

\* a finished game was followed by a rematch and a new deal
C18_Witness ==
    /\ last = Ev("rematch", "ok")
    /\ room.status = "choosing_start"
    /\ \E t \in DOMAIN room.players : stats[t].games = 1

\* C19 as stated: create on a room code that already exists changes no
\* field of the room, in every status.
C19_CreateExistingNoOp ==
    [][(last'.op = "create" /\ room.exists) => room' = room]_vars

\* the move or turn change is in the record, the outcome it calls for is not
HalfApplied(game) ==
    game.exists /\ game.status = "playing" /\ Outcome(game) # "none"

\* C20 as stated: no play or endTurn that arrives loads a room in which a
\* move or turn change is applied and the outcome is not yet evaluated.
C20_NoHalfAppliedLoad ==
    [][\A h \in Handlers :
          (inflight[h].pc = "free" /\ inflight'[h].pc = "loaded")
          => ~HalfApplied(inflight'[h].game)]_vars

\* the cards of the deck and of the seated hands, in one sequence
RECURSIVE HandsFrom(_, _)
HandsFrom(game, i) ==
    IF i > Len(game.tokens) THEN <<>>
    ELSE game.players[game.tokens[i]].hand \o HandsFrom(game, i + 1)

Held(game) == game.deck \o HandsFrom(game, 1)

\* the card of the play that handler record l carries is no longer held, in
\* a hand or in the deck, in `game`
MoveIn(game, l) == l.card \notin Range(Held(game))

\* a play whose checks have passed and whose outcome is not yet evaluated
PlayApplied(l) == l.pc = "applied" /\ l.op = "play"

\* C21: handlers of one room are not serialized.  The first save of an
\* accepted play takes its card out of the hands of the persisted room, and
\* while the play is still in flight the card comes back only by the save
\* of another handler in whose copy of the room the card is still held
\* (C21_Witness: that happens, and the other handler completes).
C21_LaterSaveWins ==
    [][\A h \in Handlers :
          /\ (inflight[h].pc = "loaded" /\ inflight[h].op = "play"
                /\ inflight'[h].pc = "applied")
             => (MoveIn(room', inflight'[h]) /\ room' = inflight'[h].game)
          /\ (PlayApplied(inflight[h]) /\ PlayApplied(inflight'[h])
                /\ MoveIn(room, inflight[h]) /\ ~MoveIn(room', inflight[h]))
             => \E g \in Handlers \ {h} :
                   /\ inflight[g].pc # "free"
                   /\ ~MoveIn(inflight[g].game, inflight[h])
                   /\ inflight'[g] # inflight[g]]_vars

\* an accepted play is in flight, every other handler has completed, and the
\* card played is held again in the persisted room
C21_Witness ==
    \E h \in Handlers :
       /\ PlayApplied(inflight[h])
       /\ ~MoveIn(room, inflight[h])
       /\ \A g \in Handlers \ {h} : inflight[g].pc = "free"

\* deck and hands are pairwise disjoint and duplicate-free, hold cards only,
\* and turnToken is null or seated
ValidRoom(game) ==
    LET held == Held(game)
    IN  /\ \A i, j \in DOMAIN held : held[i] = held[j] => i = j
        /\ \A i \in DOMAIN held : held[i] \in Cards
        /\ game.turnToken = Null \/ game.turnToken \in Range(game.tokens)

\* C23: under every interleaving of play and endTurn at their reads and
\* writes of the store, the persisted room is valid: deck and seated hands
\* are pairwise disjoint and duplicate-free, their cards lie in
\* MIN_CARD..MAX_CARD, and turnToken is null or a seated token.
C23_PersistedValid == room.exists => ValidRoom(room)

\* the game was counted as finished and a stale save has put the room back
\* to playing, with the last card drawn
C23_Witness ==
    /\ room.status = "playing"
    /\ room.deck = <<>>
    /\ \E t \in DOMAIN room.players : stats[t].games > 0

\* C22 as stated, for votes: when the startPref handlers in flight have
\* saved their votes, every one of these votes is in the persisted room, and
\* if they are the votes of all seated tokens the vote is resolved.
C22_VotesRecorded ==
    (\A h \in Handlers : inflight[h].pc = "done")
    => /\ \A h \in Handlers : inflight[h].token \in room.start.made
       /\ Range(room.tokens) \subseteq {inflight[h].token : h \in Handlers}
          => room.status = "playing"

\* C24: an accepted endTurn moves cards from the end of the deck to the end
\* of the holder's hand until the hand has HAND_SIZE cards or the deck is
\* empty, leaves the other hands alone and sets the holder's counter to 0;
\* in a playing room no other event makes the deck shorter.
C24_EndTurnRefills ==
    [][/\ (last' = Ev("endTurn", "ok"))
          => LET t == room.turnToken
                 hand == room.players[t].hand
                 full == Min2(HAND_SIZE, Len(hand) + Len(room.deck))
                 k == full - Len(hand)
             IN  /\ Len(room'.players[t].hand) = full
                 /\ SubSeq(room'.players[t].hand, 1, Len(hand)) = hand
                 /\ \A i \in 1..k :
                       room'.players[t].hand[Len(hand) + i]
                          = room.deck[Len(room.deck) + 1 - i]
                 /\ room'.deck = SubSeq(room.deck, 1, Len(room.deck) - k)
                 /\ \A u \in DOMAIN room.players \ {t} :
                       room'.players[u].hand = room.players[u].hand
                 /\ room'.playedThisTurn[t] = 0
       /\ (room.exists /\ room.status = "playing" /\ last'.op # "endTurn")
          => Len(room'.deck) >= Len(room.deck)]_vars

\* the holder has drawn its hand full and cards are left in the deck
C24_Witness ==
    /\ last = Ev("endTurn", "ok")
    /\ room.deck # <<>>
    /\ \E t \in DOMAIN room.players :
          /\ Len(room.players[t].hand) = HAND_SIZE
          /\ GetOr0(room.playedThisTurn, t) = 0
          /\ room.turnToken # t

\* how many seats after `from` the seat of token t comes, in join order and
\* wrapping: 1 for the next seat, the number of seats for `from` itself
SeatsAfter(game, from, t) ==
    ((IndexOf(game.tokens, t) - IndexOf(game.tokens, from) - 1) % Len(game.tokens)) + 1

StatusStep(from, to) ==
    \/ to = from
    \/ from = "waiting" /\ to = "choosing_start"
    \/ from = "choosing_start" /\ to = "playing"
    \/ from = "playing" /\ to \in {"win", "lose"}

\* C26: the status of the persisted room changes only along waiting ->
\* choosing_start -> playing -> win or lose, or by a rematch to waiting or
\* choosing_start.
C26_StatusSteps ==
    [][room.exists
       => /\ room'.exists
          /\ \/ StatusStep(room.status, room'.status)
             \/ last'.op = "rematch" /\ room'.status \in {"waiting", "choosing_start"}]_vars

\* the ping stored for pile p is v
Stored(p, v) == room.exists /\ p \in DOMAIN room.pilePings /\ room.pilePings[p] = v

\* C27 as stated: every ping stored for a pile is gone after a while, removed
\* by its expiry or replaced by a newer ping.
C27_PingsExpire ==
    \A p \in Piles, type \in {"have", "dont"}, ts \in Stamps :
       Stored(p, [type |-> type, ts |-> ts]) ~> ~Stored(p, [type |-> type, ts |-> ts])

\* C28 as stated: the disconnect of a socket that is no longer the socket of
\* its token leaves the player connected, with its socket.
C28_StaleDisconnectIgnored ==
    [][\A s \in Sockets :
          (last'.op = "disconnect" /\ Disconnect(s)
             /\ room.exists /\ socketIndex[s] \in DOMAIN room.players
             /\ room.players[socketIndex[s]].socketId # s)
          => room'.players[socketIndex[s]] = room.players[socketIndex[s]]]_vars

\* C29: for every token, in every state of the stats store under any
\* interleaving of the handlers that count a game, games = wins + losses.
C29_GamesAddUp ==
    \A t \in Tokens : stats[t].games = stats[t].wins + stats[t].losses

\* a game was counted twice for one token
C29_Witness ==
    \E t \in Tokens : stats[t].games = 2

\* C30: turnToken is null while the status is waiting or choosing_start and
\* a seated token while it is playing, win or lose.
C30_TurnTokenByStatus ==
    room.exists
    => IF room.status \in {"waiting", "choosing_start"}
       THEN room.turnToken = Null
       ELSE room.turnToken \in Range(room.tokens)

\* a finished game, the turn still with a seated token
C30_Witness ==
    /\ room.exists
    /\ room.status \in {"win", "lose"}
    /\ room.turnToken \in Range(room.tokens)


(* ------------------------------ C31 ----------------------------------- *)
\* the number of endTurn events a room accepts one after the other with no
\* play between them, counted up to fuel; the sender is the turn holder, the
\* only one whose endTurn passes the check of line 481
RECURSIVE EndTurnsInARow(_, _)
EndTurnsInARow(game, fuel) ==
    IF fuel = 0 \/ ~game.exists THEN 0
    ELSE IF game.status # "playing" THEN 0
    ELSE IF EndTurnRejected(game, game.turnToken) # "ok" THEN 0
    ELSE 1 + EndTurnsInARow(endTurnHandler(game, game.turnToken).game, fuel - 1)

\* the room those endTurn events leave
RECURSIVE AfterEndTurns(_, _)
AfterEndTurns(game, fuel) ==
    IF fuel = 0 \/ ~game.exists THEN game
    ELSE IF game.status # "playing" THEN game
    ELSE IF EndTurnRejected(game, game.turnToken) # "ok" THEN game
    ELSE AfterEndTurns(endTurnHandler(game, game.turnToken).game, fuel - 1)

\* With handlers run one at a time: from a playing room at most as many
\* endTurn events as there are seated players are accepted in a row, and then
\* the room is lost or its turn holder has a card to play.
EndTurnsBounded ==
    (room.exists /\ room.status = "playing")
        => /\ EndTurnsInARow(room, Len(room.tokens) + 1) <= Len(room.tokens)
           /\ LET g == AfterEndTurns(room, Len(room.tokens) + 1)
              IN  \/ g.status = "lose"
                  \/ g.status = "playing" /\ anyLegalMoveForToken(g, g.turnToken)

=============================================================================
